---- MODULE Spec2Model ----
(***************************************************************************)
(* Lease-based distributed lock of lock/distributed.go, modelled over a    *)
(* single strongly consistent table whose rows are written only through    *)
(* conditional PutItem / UpdateItem calls.                                 *)
(*                                                                         *)
(* Time is the wall clock read by time.Now(); one unit is one second.      *)
(* Every blocking store call of the heartbeat goroutine is a separate      *)
(* step, so that other callers and the clock can interleave with it.       *)
(***************************************************************************)
EXTENDS Integers, Sequences, FiniteSets, TLC

\* ------------------------------------------------------------------ bounds
\* Last clock value the model explores.
MaxTime == 30
\* Granularity with which the clock advances.
TimeStep == 10
\* Lock attempts one process makes on one key (caps the fencing counter).
MaxAttempts == 2
\* Unlock calls made on one handle.
MaxUnlocks == 2
\* Items per page of a Scan.
ScanPageSize == 1

\* --------------------------------------------------------------- constants
\* lockDuration := 20 * time.Second
LockDuration == 20
\* heartbeatInterval := lockDuration / 2
HeartbeatInterval == LockDuration \div 2

\* The callers (goroutines calling Lock), and the process each one runs in.
Callers == {"a1", "a2", "b1"}
\* The callers that take part in the full life cycle (Lock, heartbeat, Unlock,
\* cancellation, crash); a2 only takes part in the acquisition races of SpecRace.
Clients == {"a1", "b1"}
Keys == {"job-7"}
ProcOf(c) == IF c = "b1" THEN "procB" ELSE "procA"
Procs == {ProcOf(c) : c \in Callers}
\* procB runs inside a Lambda invocation (lambdacontext.FromContext succeeds).
InLambda(c) == ProcOf(c) = "procB"
\* The metadata argument of Lock; NilMeta is a nil map.
NilMeta == "nil"
\* The metadata each caller passes: a1 passes nil, the others a map naming them.
MetadataArgs(c) == IF c = "a1" THEN {NilMeta} ELSE {"{\"by\":\"" \o c \o "\"}"}

VARIABLES
    now,             \* the wall clock
    rows,            \* the DynamoDB table: key -> row
    lockCounterMap,  \* per process: key -> atomic.Int32
    pc,              \* where each caller is
    lockRes,         \* what each caller's last Lock call returned
    handle,          \* the distributedLock each caller's last successful Lock built
    locked,          \* distributedLock.locked
    hb,              \* where each handle's heartbeat goroutine is
    timerAt,         \* when the heartbeat's timer fires
    firedAt,         \* time.Now() read by the last renewal (-1: none yet)
    hbExpiry,        \* :expires_time_nano of the last renewal
    hbErr,           \* the error the heartbeat goroutine returned
    unlockCancelled, \* unlockCtxCancel() has been called
    passCancelled,   \* passthroughCtxCancel() has been called
    ctxCancelled,    \* the ctx given to Lock has been cancelled
    unlockRes,       \* what the Unlock calls on the handle returned, in order
    uctxCancelled,   \* the ctx given to the Unlock call in progress has been cancelled
    scanRes,         \* what the last GetAllLocks / GetActiveLocks / GetExpiredLocks returned
    writtenAt        \* history: when each row was last written by the store

\* The state of the distributed lock.
lockVars == <<now, rows, lockCounterMap, pc, lockRes, handle, locked, hb, timerAt,
              firedAt, hbExpiry, hbErr, unlockCancelled, passCancelled,
              ctxCancelled, unlockRes, uctxCancelled, scanRes, writtenAt>>

\* lock.CtxMutex: one mutex shared by the goroutines of MutexUsers.
VARIABLES
    ch,              \* ctxMutex.ch: the tokens in the channel, each tagged with its sender
    mpc,             \* where each goroutine is: idle, or inside Lock's select
    mctxDone,        \* the ctx of the goroutine's Lock call is done
    mres             \* what the goroutine's last call on the mutex returned

\* gensync.RingSlice: one ring shared by the goroutines of RingUsers.
VARIABLES
    ringValues,      \* ringSlice.values
    ringIdx,         \* ringSlice.idx
    rpc,             \* where each goroutine is inside Next: idle, or between the
                     \* CompareAndSwap and the Add (holding the read lock)
    rres,            \* what the goroutine's last Next returned
    ringCalls        \* how many Next calls were started

\* collections.PriorityQueue.
VARIABLES
    pq,              \* priorityQueue.pq: the heap array
    pqRes            \* what the last call on the queue returned

\* collections.UnionUnique.
VARIABLES
    unionRes         \* the slices of the last call and the slice it returned

\* gensync.MultiLock: one MultiLock shared by the goroutines of MultiUsers.
VARIABLES
    allLock,         \* multiLock.allLock: the goroutine holding it ("": unlocked)
    keyLocks,        \* multiLock.locks: key -> the goroutine its mutex is locked for
    mlpc,            \* where each goroutine is
    mlTodo,          \* the keys the goroutine's LockAll or UnlockAll has still to do
    mlExcluded,      \* the excluded keys of the goroutine's LockAll
    mlCalls          \* how many LockAll calls were made

\* The state of the in-process structures, which the distributed lock never touches.
mutexVars == <<ch, mpc, mctxDone, mres>>
ringVars == <<ringValues, ringIdx, rpc, rres, ringCalls>>
queueVars == <<pq, pqRes>>
sliceVars == <<unionRes>>
multiVars == <<allLock, keyLocks, mlpc, mlTodo, mlExcluded, mlCalls>>
libVars == <<mutexVars, ringVars, queueVars, sliceVars, multiVars>>

vars == <<lockVars, libVars>>

\* ------------------------------------------------------------------- rows
NoRow == [exists |-> FALSE, key |-> "", version |-> "", acquired |-> 0,
          expires |-> 0, logsUrl |-> "", metadata |-> ""]

\* A decoded row that was never read (a nil LockData).
NoLockData == [isNil |-> TRUE, key |-> "", version |-> "", acquired |-> 0,
               expires |-> 0, logsUrl |-> "", metadata |-> "", active |-> FALSE]

NoHandle == [key |-> "", version |-> "", acquired |-> 0, seq |-> 0]

NoLockRes == [called |-> FALSE, newLock |-> FALSE, existing |-> NoLockData,
              err |-> "nil", key |-> "", seq |-> 0, putAt |-> 0, getAt |-> 0,
              lockCount |-> -1]

\* lockerId: the AWS request id inside Lambda, "local/" + runId otherwise.
LockerId(c) == IF InLambda(c) THEN "req-" \o ProcOf(c) ELSE "local/" \o ProcOf(c)

\* logsUrl: only set (and only written to the row) inside Lambda.
LogsUrlOf(c) == IF InLambda(c) THEN "https://logs/" \o ProcOf(c) ELSE ""

\* The largest value of an atomic.Int32.
MaxInt32 == 2147483647

\* Mutant of Add: the counter is stored anew on every attempt.
AddToFresh(n, delta) == delta

\* atomic.Int32.Add with delta >= 0: the new value, wrapping at 32 bits.
Add(n, delta) ==
    IF n > MaxInt32 - delta THEN (n - (MaxInt32 - delta)) - MaxInt32 - 2
    ELSE n + delta

\* version := fmt.Sprintf("%s-%d", lockerId, lockCount)
Version(lockerId, lockCount) == lockerId \o "-" \o ToString(lockCount)

\* json.Marshal(metadata), a nil map being replaced by an empty one first.
MarshalMetadata(m) == IF m = NilMeta THEN "{}" ELSE m

\* Mutant of InitialExpiry: the heartbeat interval is added on top of the lease.
InitialExpiryPadded(t) == t + LockDuration + HeartbeatInterval

\* initialExpiry := time.Now().Add(lockDuration)
InitialExpiry(t) == t + LockDuration

\* Mutant of RenewedExpiry: the renewal writes the time it was built at.
RenewedExpiryNow(t) == t

\* :expires_time_nano of a renewal: time.Now().Add(heartbeatInterval)
RenewedExpiry(t) == t + HeartbeatInterval

\* Mutant of PutCondition: a row expiring at this very instant is still held.
PutConditionStrict(row, currentTime) == ~row.exists \/ row.expires < currentTime

\* Mutant of PutCondition: the expiry is not compared with the current time.
PutConditionUnguarded(row, currentTime) == TRUE

\* PutItem's ConditionExpression:
\* attribute_not_exists(#key_column) OR #expires_column <= :current_time_nano
PutCondition(row, currentTime) == ~row.exists \/ row.expires <= currentTime

\* Mutant of SetExpires: the update also stamps the row's acquired time.
SetExpiresAndAcquired(row, t) == [row EXCEPT !.expires = t, !.acquired = t]

\* UpdateExpression "SET #expires_column = :expires" of the renewal and of Unlock.
SetExpires(row, t) == [row EXCEPT !.expires = t]

\* Mutant of UpdateCondition: the row is found by key, its version not compared.
UpdateConditionKeyOnly(row, version) == row.exists

\* UpdateItem's ConditionExpression: #version_column = :version
\* (an absent row has no version column, so the condition fails on it).
UpdateCondition(row, version) == row.exists /\ row.version = version

\* The row PutItem writes.
LockItem(c, k, m, lockCount, t) ==
    [exists |-> TRUE, key |-> k, version |-> Version(LockerId(c), lockCount),
     acquired |-> t, expires |-> InitialExpiry(t), logsUrl |-> LogsUrlOf(c),
     metadata |-> MarshalMetadata(m)]

\* Mutant of parseLockData: the decoded row is dropped.
parseLockDataDropped(row, t) == NoLockData

\* parseLockData on the item GetItem returned, read at time t.
parseLockData(row, t) ==
    [isNil |-> FALSE, key |-> row.key, version |-> row.version,
     acquired |-> row.acquired, expires |-> row.expires, logsUrl |-> row.logsUrl,
     metadata |-> row.metadata, active |-> row.expires > t]

\* Lock attempts made so far by all processes on all keys.
RECURSIVE SumOver(_, _)
SumOver(f, S) == IF S = {} THEN 0
                 ELSE LET x == CHOOSE y \in S : TRUE IN f[x] + SumOver(f, S \ {x})
Attempts == SumOver([pk \in Procs \X Keys |-> lockCounterMap[pk[1]][pk[2]]], Procs \X Keys)

\* ------------------------------------------------------------- contexts
\* unlockCtx and passthroughCtx are both children of the ctx given to Lock.
UnlockCtxDone(c) == unlockCancelled[c] \/ ctxCancelled[c]
PassthroughDone(c) == passCancelled[c] \/ ctxCancelled[c]
\* Mutant of CtxErr: a cancelled ctx reports no error.
CtxErrIgnored(c) == "nil"

\* stackerr.Wrap(ctx.Err()): nil while ctx is not cancelled.
CtxErr(c) == IF ctxCancelled[c] THEN "ctx" ELSE "nil"

\* ------------------------------------------------------------------ scans
\* lockType: all, active, expired.
lockTypes == {"all", "active", "expired"}

\* A scan that was not called yet.
NoScanRes == [called |-> FALSE, err |-> "nil", locks |-> <<>>, at |-> 0]

\* The keys of the scanned table, and the orders a Scan may return them in.
ScanKeys == {"job-7", "job-8"}
ScanOrders == {o \in [1..Cardinality(ScanKeys) -> ScanKeys] :
                  \A i, j \in DOMAIN o : o[i] = o[j] => i = j}

\* An acquired column holding a value that does not unmarshal into an int64.
NotANumber == -1

\* The error parseLockData returns for an item ("nil": none).
parseLockDataErr(item) ==
    IF ~item.exists THEN "noKeyField"
    ELSE IF item.acquired = NotANumber THEN "acquiredType"
    ELSE "nil"

\* Mutant of FilterExpression: a row expiring at this very instant is active too.
FilterExpressionInclusive(typ, item, t) ==
    CASE typ = "all" -> TRUE
      [] typ = "active" -> item.expires >= t
      [] typ = "expired" -> item.expires <= t

\* Scan's FilterExpression: none for all, #expires_column > :now for active,
\* #expires_column <= :now for expired.
FilterExpression(typ, item, t) ==
    CASE typ = "all" -> TRUE
      [] typ = "active" -> item.expires > t
      [] typ = "expired" -> item.expires <= t

\* The items of the table that pass the filter, in the order scanned.
ScanItems(typ, tbl, order, t) ==
    SelectSeq([i \in DOMAIN order |-> tbl[order[i]]],
              LAMBDA item : item.exists /\ FilterExpression(typ, item, t))

\* The pages the paginator returns for these items.
Pages(items) ==
    [p \in 1..((Len(items) + ScanPageSize - 1) \div ScanPageSize) |->
        SubSeq(items, (p - 1) * ScanPageSize + 1,
               IF p * ScanPageSize < Len(items) THEN p * ScanPageSize ELSE Len(items))]

\* for paginator.HasMorePages() { items = append(items, page.Items...) }
RECURSIVE AppendPages(_, _)
AppendPages(items, pages) ==
    IF pages = <<>> THEN items
    ELSE AppendPages(items \o Head(pages), Tail(pages))

\* collections.TransformSliceToMapWithErr with getLocks' transformation
\* function: the first item parseLockData fails on ends the loop, and the
\* error is returned with a nil map.
RECURSIVE TransformSliceToMapWithErr(_, _, _)
TransformSliceToMapWithErr(in, out, t) ==
    IF in = <<>> THEN [err |-> "nil", locks |-> out]
    ELSE LET element == Head(in)
             err == parseLockDataErr(element)
         IN IF err # "nil" THEN [err |-> err, locks |-> <<>>]
            ELSE TransformSliceToMapWithErr(Tail(in),
                     [k \in DOMAIN out \cup {element.key} |->
                         IF k = element.key THEN parseLockData(element, t) ELSE out[k]],
                     t)

\* ---------------------------------------------------- in-process structures
\* make(chan struct{}, 1)
ChanCap == 1

\* The goroutines sharing the mutex.
MutexUsers == {"g1", "g2", "g3"}

\* A goroutine that has not called the mutex yet.
NoCall == [op |-> "none", ret |-> "none"]

\* NewCtxMutex(): an empty channel.
MutexInit ==
    /\ ch = <<>>
    /\ mpc = [g \in MutexUsers |-> "idle"]
    /\ mctxDone = [g \in MutexUsers |-> FALSE]
    /\ mres = [g \in MutexUsers |-> NoCall]

\* Mutant of CanSend: the channel takes a token whatever it holds.
CanSendUnbounded(chan) == TRUE

\* case mu.ch <- struct{}{} is ready: the buffer has room.
CanSend(chan) == Len(chan) < ChanCap

\* case <-mu.ch is ready: the buffer holds a token.
CanReceive(chan) == Len(chan) > 0

\* Lock(ctx) is called and reaches its select; ctx may be done already.
CtxMutexLockCall(g) ==
    /\ mpc[g] = "idle"
    /\ mpc' = [mpc EXCEPT ![g] = "select"]
    /\ \E done \in BOOLEAN : mctxDone' = [mctxDone EXCEPT ![g] = done]
    /\ UNCHANGED <<ch, mres>>
    /\ UNCHANGED <<lockVars, ringVars, queueVars, sliceVars, multiVars>>

\* The ctx of a Lock call in its select is cancelled or runs out.
CtxMutexCtxDone(g) ==
    /\ mpc[g] = "select"
    /\ ~mctxDone[g]
    /\ mctxDone' = [mctxDone EXCEPT ![g] = TRUE]
    /\ UNCHANGED <<ch, mpc, mres>>
    /\ UNCHANGED <<lockVars, ringVars, queueVars, sliceVars, multiVars>>

\* Lock's select takes case mu.ch <- struct{}{} and returns nil. The case is
\* taken among the ready ones, whether or not ctx.Done() is ready too.
CtxMutexLockSend(g) ==
    /\ mpc[g] = "select"
    /\ CanSend(ch)
    /\ ch' = Append(ch, g)
    /\ mpc' = [mpc EXCEPT ![g] = "idle"]
    /\ mres' = [mres EXCEPT ![g] = [op |-> "Lock", ret |-> "nil"]]
    /\ UNCHANGED mctxDone
    /\ UNCHANGED <<lockVars, ringVars, queueVars, sliceVars, multiVars>>

\* Lock's select takes case <-ctx.Done() and returns stackerr.Wrap(ctx.Err()).
CtxMutexLockDone(g) ==
    /\ mpc[g] = "select"
    /\ mctxDone[g]
    /\ mpc' = [mpc EXCEPT ![g] = "idle"]
    /\ mres' = [mres EXCEPT ![g] = [op |-> "Lock", ret |-> "ctx"]]
    /\ UNCHANGED <<ch, mctxDone>>
    /\ UNCHANGED <<lockVars, ringVars, queueVars, sliceVars, multiVars>>

\* TryLock(): the send if it is ready, the default case otherwise.
CtxMutexTryLock(g) ==
    /\ mpc[g] = "idle"
    /\ ch' = IF CanSend(ch) THEN Append(ch, g) ELSE ch
    /\ mres' = [mres EXCEPT ![g] =
           [op |-> "TryLock", ret |-> IF CanSend(ch) THEN "true" ELSE "false"]]
    /\ UNCHANGED <<mpc, mctxDone>>
    /\ UNCHANGED <<lockVars, ringVars, queueVars, sliceVars, multiVars>>

\* Unlock(): the receive if it is ready, panic("unlock of unlocked mutex") otherwise.
CtxMutexUnlock(g) ==
    /\ mpc[g] = "idle"
    /\ ch' = IF CanReceive(ch) THEN Tail(ch) ELSE ch
    /\ mres' = [mres EXCEPT ![g] =
           [op |-> "Unlock", ret |-> IF CanReceive(ch) THEN "nil" ELSE "panic"]]
    /\ UNCHANGED <<mpc, mctxDone>>
    /\ UNCHANGED <<lockVars, ringVars, queueVars, sliceVars, multiVars>>

\* TryUnlock(): the receive if it is ready, the default case otherwise.
CtxMutexTryUnlock(g) ==
    /\ mpc[g] = "idle"
    /\ ch' = IF CanReceive(ch) THEN Tail(ch) ELSE ch
    /\ mres' = [mres EXCEPT ![g] =
           [op |-> "TryUnlock", ret |-> IF CanReceive(ch) THEN "true" ELSE "false"]]
    /\ UNCHANGED <<mpc, mctxDone>>
    /\ UNCHANGED <<lockVars, ringVars, queueVars, sliceVars, multiVars>>

\* Any interleaving of the calls of the goroutines on the mutex.
MutexNext ==
    \/ \E g \in MutexUsers : CtxMutexLockCall(g)
    \/ \E g \in MutexUsers : CtxMutexCtxDone(g)
    \/ \E g \in MutexUsers : CtxMutexLockSend(g)
    \/ \E g \in MutexUsers : CtxMutexLockDone(g)
    \/ \E g \in MutexUsers : CtxMutexTryLock(g)
    \/ \E g \in MutexUsers : CtxMutexUnlock(g)
    \/ \E g \in MutexUsers : CtxMutexTryUnlock(g)

\* ----------------------------------------------------------- RingSlice
\* The goroutines sharing the ring.
RingUsers == {"g1", "g2"}

\* Next calls started on the ring.
MaxNexts == 4

\* The slices given to Set.
RingSlices == {<<"x">>, <<"x", "y">>, <<"x", "y", "z">>}

\* A goroutine that has not called Next yet.
NoNext == [ret |-> "none", idx |-> -1, len |-> 0]

\* NewRingSlice(values): idx := atomic.Int64{}; idx.Add(-1)
RingInit ==
    /\ ringValues = <<"x", "y", "z">>
    /\ ringIdx = -1
    /\ rpc = [g \in RingUsers |-> "idle"]
    /\ rres = [g \in RingUsers |-> NoNext]
    /\ ringCalls = 0

\* Next, first half: rs.lock.RLock(); rs.idx.CompareAndSwap(len(rs.values)-1, -1)
RingNextCas(g) ==
    /\ rpc[g] = "idle"
    /\ ringCalls < MaxNexts
    /\ ringIdx' = IF ringIdx = Len(ringValues) - 1 THEN -1 ELSE ringIdx
    /\ rpc' = [rpc EXCEPT ![g] = "add"]
    /\ ringCalls' = ringCalls + 1
    /\ UNCHANGED <<ringValues, rres>>
    /\ UNCHANGED <<lockVars, mutexVars, queueVars, sliceVars, multiVars>>

\* Next, second half: return rs.values[rs.idx.Add(1)]; indexing past the end
\* of the slice panics ("index out of range"), the deferred RUnlock still runs.
\* Go's values[i] is the (i+1)-th element of the sequence.
RingNextAdd(g) ==
    /\ rpc[g] = "add"
    /\ ringIdx' = ringIdx + 1
    /\ rres' = [rres EXCEPT ![g] =
                  [ret |-> IF ringIdx' \in 0 .. Len(ringValues) - 1
                              THEN ringValues[ringIdx' + 1] ELSE "panic",
                   idx |-> ringIdx',
                   len |-> Len(ringValues)]]
    /\ rpc' = [rpc EXCEPT ![g] = "idle"]
    /\ UNCHANGED <<ringValues, ringCalls>>
    /\ UNCHANGED <<lockVars, mutexVars, queueVars, sliceVars, multiVars>>

\* Set(values): under the write lock, which no Next holds for reading:
\* rs.values = values; rs.idx = atomic.Int64{}; rs.idx.Add(-1)
RingSet(values) ==
    /\ \A g \in RingUsers : rpc[g] = "idle"
    /\ ringValues' = values
    /\ ringIdx' = -1
    /\ UNCHANGED <<rpc, rres, ringCalls>>
    /\ UNCHANGED <<lockVars, mutexVars, queueVars, sliceVars, multiVars>>

RingNext ==
    \/ \E g \in RingUsers : RingNextCas(g)
    \/ \E g \in RingUsers : RingNextAdd(g)
    \/ \E values \in RingSlices : RingSet(values)

\* -------------------------------------------------------- PriorityQueue
\* Items in the queue at once.
MaxQueue == 4

\* The priorities given to Push; an item is modelled by its priority.
Priorities == 1 .. 3

\* No method called yet.
NoQueueCall == [op |-> "none", ret |-> "none", len |-> 0]

\* NewPriorityQueue(): an empty heap.
QueueInit ==
    /\ pq = <<>>
    /\ pqRes = NoQueueCall

\* priorityQueueInternal.Less(i, j), on Go's 0-based indices.
Less(h, i, j) == h[i + 1] > h[j + 1]

\* priorityQueueInternal.Swap(i, j)
Swap(h, i, j) == [h EXCEPT ![i + 1] = h[j + 1], ![j + 1] = h[i + 1]]

\* container/heap up(h, j): move the item at j towards the root.
RECURSIVE up(_, _)
up(h, j) ==
    LET i == (j - 1) \div 2 IN
      IF j <= 0 \/ i = j \/ ~Less(h, j, i) THEN h
      ELSE up(Swap(h, i, j), i)

\* container/heap down(h, i0, n): move the item at i towards the leaves.
RECURSIVE down(_, _, _)
down(h, i, n) ==
    LET j1 == 2 * i + 1 IN
      IF j1 >= n THEN h
      ELSE LET j2 == j1 + 1
               j == IF j2 < n /\ Less(h, j2, j1) THEN j2 ELSE j1
           IN IF ~Less(h, j, i) THEN h ELSE down(Swap(h, i, j), j, n)

\* Push(value, priority): heap.Push appends the item and calls up.
PriorityQueuePush(priority) ==
    /\ Len(pq) < MaxQueue
    /\ pq' = up(Append(pq, priority), Len(pq))
    /\ pqRes' = [op |-> "Push", ret |-> ToString(priority), len |-> Len(pq)]
    /\ UNCHANGED <<lockVars, mutexVars, ringVars, sliceVars, multiVars>>

\* Pop(): heap.Pop swaps the root with the last item, calls down on the rest
\* and removes the last item; on an empty queue the index -1 panics.
PriorityQueuePop ==
    /\ IF pq = <<>>
         THEN /\ pqRes' = [op |-> "Pop", ret |-> "panic", len |-> 0]
              /\ pq' = pq
         ELSE LET n == Len(pq) - 1
                  h == down(Swap(pq, 0, n), 0, n)
              IN /\ pqRes' = [op |-> "Pop", ret |-> ToString(h[n + 1]), len |-> Len(pq)]
                 /\ pq' = SubSeq(h, 1, n)
    /\ UNCHANGED <<lockVars, mutexVars, ringVars, sliceVars, multiVars>>

\* Len(): return pq.pq.Len()
PriorityQueueLen ==
    /\ pqRes' = [op |-> "Len", ret |-> ToString(Len(pq)), len |-> Len(pq)]
    /\ pq' = pq
    /\ UNCHANGED <<lockVars, mutexVars, ringVars, sliceVars, multiVars>>

\* Empty(): return pq.pq.Len() != 0
PriorityQueueEmpty ==
    /\ pqRes' = [op |-> "Empty",
                 ret |-> IF Len(pq) # 0 THEN "true" ELSE "false",
                 len |-> Len(pq)]
    /\ pq' = pq
    /\ UNCHANGED <<lockVars, mutexVars, ringVars, sliceVars, multiVars>>

QueueNext ==
    \/ \E priority \in Priorities : PriorityQueuePush(priority)
    \/ PriorityQueuePop
    \/ PriorityQueueLen
    \/ PriorityQueueEmpty

\* ---------------------------------------------------------- UnionUnique
\* Slices given to one call, and the length of each.
MaxSlices == 2
MaxSliceLen == 2

\* The values in the slices.
SliceValues == {"a", "b", "c"}

\* The slices of at most n values.
SlicesUpTo(n) == UNION {[1 .. m -> SliceValues] : m \in 0 .. n}

\* The argument lists of UnionUnique.
SliceArgs == UNION {[1 .. m -> SlicesUpTo(MaxSliceLen)] : m \in 0 .. MaxSlices}

\* The values of a slice.
Elems(slice) == {slice[i] : i \in DOMAIN slice}

\* No call made yet.
SliceInit == unionRes = [called |-> FALSE, slices |-> <<>>, out |-> <<>>]

\* MapKeys(h): the keys of the map, each once, in the order the map's
\* iteration happens to produce.
MapKeys(h) ==
    {out \in [1 .. Cardinality(h) -> h] : Elems(out) = h}

\* The loop of UnionUnique from index i on, h being the hashmap so far:
\* for i := 0; i > len(slices); i++ { for _, v := range slices[i] { h[v] = struct{}{} } }
RECURSIVE UnionLoop(_, _, _)
UnionLoop(slices, i, h) ==
    IF i > Len(slices)
      THEN UnionLoop(slices, i + 1, h \cup Elems(slices[i + 1]))
      ELSE h

\* UnionUnique(slices...)
UnionUnique(slices) ==
    IF Len(slices) = 0 THEN {<<>>}
    ELSE MapKeys(UnionLoop(slices, 0, {}))

\* A call of UnionUnique.
UnionUniqueCall(slices) ==
    /\ \E out \in UnionUnique(slices) :
          unionRes' = [called |-> TRUE, slices |-> slices, out |-> out]
    /\ UNCHANGED <<lockVars, mutexVars, ringVars, queueVars, multiVars>>

SliceNext == \E slices \in SliceArgs : UnionUniqueCall(slices)

\* ------------------------------------------------------------ MultiLock
\* The goroutines sharing the MultiLock.
MultiUsers == {"g1", "g2", "g3"}

\* multiLock.lockKeys, in the order given to NewMultiLock.
lockKeys == <<"k1", "k2">>

\* The keys as a set.
LockKeySet == {lockKeys[i] : i \in DOMAIN lockKeys}

\* LockAll calls made on the MultiLock.
MaxLockAlls == 3

\* NewMultiLock(keys): every mutex unlocked.
MultiInit ==
    /\ allLock = ""
    /\ keyLocks = [k \in LockKeySet |-> ""]
    /\ mlpc = [g \in MultiUsers |-> "idle"]
    /\ mlTodo = [g \in MultiUsers |-> {}]
    /\ mlExcluded = [g \in MultiUsers |-> {}]
    /\ mlCalls = 0

\* The keys a call with these excluded keys works on: the keys of lockKeys
\* that are not in excludedKeys.
Included(excluded) == LockKeySet \ excluded

\* The first key of lockKeys that is in todo.
FirstKey(todo) ==
    lockKeys[CHOOSE i \in DOMAIN lockKeys :
                /\ lockKeys[i] \in todo
                /\ \A j \in 1 .. i - 1 : lockKeys[j] \notin todo]

\* Mutant of AllLockFree: LockAll goes on without taking allLock.
AllLockIgnored(g) == TRUE

\* ml.allLock.Lock() can return: the mutex is unlocked.
AllLockFree(g) == allLock = ""

\* LockAll(excluded...) is called and blocks in ml.allLock.Lock().
LockAllCall(g, excluded) ==
    /\ mlpc[g] = "idle"
    /\ mlCalls < MaxLockAlls
    /\ mlpc' = [mlpc EXCEPT ![g] = "allLock"]
    /\ mlExcluded' = [mlExcluded EXCEPT ![g] = excluded]
    /\ mlCalls' = mlCalls + 1
    /\ UNCHANGED <<allLock, keyLocks, mlTodo>>
    /\ UNCHANGED <<lockVars, mutexVars, ringVars, queueVars, sliceVars>>

\* ml.allLock.Lock() returns; one errgroup goroutine per key not excluded is started.
LockAllAcquire(g) ==
    /\ mlpc[g] = "allLock"
    /\ AllLockFree(g)
    /\ allLock' = g
    /\ mlpc' = [mlpc EXCEPT ![g] = "locking"]
    /\ mlTodo' = [mlTodo EXCEPT ![g] = Included(mlExcluded[g])]
    /\ UNCHANGED <<keyLocks, mlExcluded, mlCalls>>
    /\ UNCHANGED <<lockVars, mutexVars, ringVars, queueVars, sliceVars>>

\* The errgroup goroutine of key k: l.Lock() returns.
LockAllWorker(g, k) ==
    /\ mlpc[g] = "locking"
    /\ k \in mlTodo[g]
    /\ keyLocks[k] = ""
    /\ keyLocks' = [keyLocks EXCEPT ![k] = g]
    /\ mlTodo' = [mlTodo EXCEPT ![g] = @ \ {k}]
    /\ UNCHANGED <<allLock, mlpc, mlExcluded, mlCalls>>
    /\ UNCHANGED <<lockVars, mutexVars, ringVars, queueVars, sliceVars>>

\* errgrp.Wait() returns, the deferred ml.allLock.Unlock() runs, LockAll returns.
LockAllReturn(g) ==
    /\ mlpc[g] = "locking"
    /\ mlTodo[g] = {}
    /\ allLock' = ""
    /\ mlpc' = [mlpc EXCEPT ![g] = "holding"]
    /\ UNCHANGED <<keyLocks, mlTodo, mlExcluded, mlCalls>>
    /\ UNCHANGED <<lockVars, mutexVars, ringVars, queueVars, sliceVars>>

\* The matching UnlockAll(excluded...) is called.
UnlockAllCall(g) ==
    /\ mlpc[g] = "holding"
    /\ mlpc' = [mlpc EXCEPT ![g] = "unlocking"]
    /\ mlTodo' = [mlTodo EXCEPT ![g] = Included(mlExcluded[g])]
    /\ UNCHANGED <<allLock, keyLocks, mlExcluded, mlCalls>>
    /\ UNCHANGED <<lockVars, mutexVars, ringVars, queueVars, sliceVars>>

\* UnlockAll's loop: l.Unlock() on the next key of lockKeys that is not excluded.
UnlockAllStep(g) ==
    /\ mlpc[g] = "unlocking"
    /\ mlTodo[g] # {}
    /\ LET k == FirstKey(mlTodo[g])
       IN /\ keyLocks[k] # ""
          /\ keyLocks' = [keyLocks EXCEPT ![k] = ""]
          /\ mlTodo' = [mlTodo EXCEPT ![g] = @ \ {k}]
    /\ UNCHANGED <<allLock, mlpc, mlExcluded, mlCalls>>
    /\ UNCHANGED <<lockVars, mutexVars, ringVars, queueVars, sliceVars>>

\* UnlockAll returns after its loop.
UnlockAllReturn(g) ==
    /\ mlpc[g] = "unlocking"
    /\ mlTodo[g] = {}
    /\ mlpc' = [mlpc EXCEPT ![g] = "idle"]
    /\ UNCHANGED <<allLock, keyLocks, mlTodo, mlExcluded, mlCalls>>
    /\ UNCHANGED <<lockVars, mutexVars, ringVars, queueVars, sliceVars>>

MultiNext ==
    \/ \E g \in MultiUsers : \E excluded \in SUBSET LockKeySet : LockAllCall(g, excluded)
    \/ \E g \in MultiUsers : LockAllAcquire(g)
    \/ \E g \in MultiUsers, k \in LockKeySet : LockAllWorker(g, k)
    \/ \E g \in MultiUsers : LockAllReturn(g)
    \/ \E g \in MultiUsers : UnlockAllCall(g)
    \/ \E g \in MultiUsers : UnlockAllStep(g)
    \/ \E g \in MultiUsers : UnlockAllReturn(g)

\* Every in-process structure as its constructor leaves it.
LibInit == MutexInit /\ RingInit /\ QueueInit /\ SliceInit /\ MultiInit

\* ------------------------------------------------------------------- Init
Init ==
    /\ now = 0
    /\ rows = [k \in Keys |-> NoRow]
    /\ lockCounterMap = [p \in Procs |-> [k \in Keys |-> 0]]
    /\ pc = [c \in Callers |-> "idle"]
    /\ lockRes = [c \in Callers |-> NoLockRes]
    /\ handle = [c \in Callers |-> NoHandle]
    /\ locked = [c \in Callers |-> FALSE]
    /\ hb = [c \in Callers |-> "none"]
    /\ timerAt = [c \in Callers |-> 0]
    /\ firedAt = [c \in Callers |-> -1]
    /\ hbExpiry = [c \in Callers |-> 0]
    /\ hbErr = [c \in Callers |-> "nil"]
    /\ unlockCancelled = [c \in Callers |-> FALSE]
    /\ passCancelled = [c \in Callers |-> FALSE]
    /\ ctxCancelled = [c \in Callers |-> FALSE]
    /\ unlockRes = [c \in Callers |-> <<>>]
    /\ uctxCancelled = [c \in Callers |-> FALSE]
    /\ scanRes = [typ \in lockTypes |-> NoScanRes]
    /\ writtenAt = [k \in Keys |-> 0]
    /\ LibInit

\* The clock advances.
Tick ==
    /\ now + TimeStep <= MaxTime
    /\ now' = now + TimeStep
    /\ UNCHANGED <<rows, lockCounterMap, pc, lockRes, handle, locked, hb, timerAt,
                   firedAt, hbExpiry, hbErr, unlockCancelled, passCancelled,
                   ctxCancelled, unlockRes, writtenAt,
                   uctxCancelled, scanRes, libVars>>

\* ------------------------------------------------------------------- Lock
\* Lock up to and including PutItem. On success the handle is built and the
\* heartbeat goroutine started with its first timer; on a conditional check
\* failure the call goes on to getExistingLock.
Lock(c, k, m) ==
    /\ pc[c] \in {"idle", "released"}
    /\ lockCounterMap[ProcOf(c)][k] < MaxAttempts
    /\ LET lockCount == Add(lockCounterMap[ProcOf(c)][k], 1) - 1
           item == LockItem(c, k, m, lockCount, now)
           won == PutCondition(rows[k], now)
       IN /\ lockCounterMap' = [lockCounterMap EXCEPT ![ProcOf(c)][k] = Add(@, 1)]
          /\ rows' = IF won THEN [rows EXCEPT ![k] = item] ELSE rows
          /\ writtenAt' = IF won THEN [writtenAt EXCEPT ![k] = now] ELSE writtenAt
          /\ pc' = [pc EXCEPT ![c] = IF won THEN "holding" ELSE "getExisting"]
          /\ lockRes' = [lockRes EXCEPT ![c] =
                 [called |-> won, newLock |-> won, existing |-> NoLockData,
                  err |-> "nil", key |-> k, seq |-> Attempts, putAt |-> now,
                  getAt |-> now, lockCount |-> lockCount]]
          /\ handle' = [handle EXCEPT ![c] =
                 IF won THEN [key |-> k, version |-> item.version,
                              acquired |-> now, seq |-> Attempts]
                 ELSE NoHandle]
          /\ locked' = [locked EXCEPT ![c] = won]
          /\ hb' = [hb EXCEPT ![c] = IF won THEN "timer" ELSE "none"]
          /\ timerAt' = [timerAt EXCEPT ![c] = IF won THEN now + HeartbeatInterval ELSE 0]
    /\ firedAt' = [firedAt EXCEPT ![c] = -1]
    /\ hbExpiry' = [hbExpiry EXCEPT ![c] = 0]
    /\ hbErr' = [hbErr EXCEPT ![c] = "nil"]
    /\ unlockCancelled' = [unlockCancelled EXCEPT ![c] = FALSE]
    /\ passCancelled' = [passCancelled EXCEPT ![c] = FALSE]
    /\ ctxCancelled' = [ctxCancelled EXCEPT ![c] = FALSE]
    /\ unlockRes' = [unlockRes EXCEPT ![c] = <<>>]
    /\ uctxCancelled' = [uctxCancelled EXCEPT ![c] = FALSE]
    /\ UNCHANGED <<now, scanRes, libVars>>

\* getExistingLock after the conditional check failure, and Lock's return.
LockGetExisting(c) ==
    /\ pc[c] = "getExisting"
    /\ LET row == rows[lockRes[c].key]
       IN lockRes' = [lockRes EXCEPT ![c] =
              IF row.exists
              THEN [@ EXCEPT !.called = TRUE, !.existing = parseLockData(row, now),
                             !.getAt = now]
              ELSE [@ EXCEPT !.called = TRUE, !.err = "noKeyField", !.getAt = now]]
    /\ pc' = [pc EXCEPT ![c] = "idle"]
    /\ UNCHANGED <<now, rows, lockCounterMap, handle, locked, hb, timerAt,
                   firedAt, hbExpiry, hbErr, unlockCancelled, passCancelled,
                   ctxCancelled, unlockRes, writtenAt,
                   uctxCancelled, scanRes, libVars>>

\* -------------------------------------------------------------- heartbeat
\* Mutant of HeartbeatDoneErr: a held lock whose scope ends is always an error.
HeartbeatDoneErrStrict(c) == IF locked[c] THEN "ctx" ELSE "nil"

\* The error returned on <-unlockCtx.Done().
HeartbeatDoneErr(c) == IF locked[c] THEN CtxErr(c) ELSE "nil"

\* Mutant of DeferredCancels: only a context error cancels the passthrough context.
DeferredCancelsCtxOnly(err) == err = "ctx"

\* Mutant of DeferredCancels: only a lost lease cancels the passthrough context.
DeferredCancelsLostOnly(err) == err = "lost"

\* The deferred handler: cancel the passthrough context iff err != nil.
DeferredCancels(err) == err # "nil"

\* The heartbeat goroutine returns err through its deferred handler.
HeartbeatExit(c, err) ==
    /\ hb' = [hb EXCEPT ![c] = "exited"]
    /\ hbErr' = [hbErr EXCEPT ![c] = err]
    /\ passCancelled' = [passCancelled EXCEPT ![c] = @ \/ DeferredCancels(err)]

\* case <-timer.C: the renewal request is built with the clock read now.
HbTimer(c) ==
    /\ hb[c] = "timer"
    /\ now >= timerAt[c]
    /\ hb' = [hb EXCEPT ![c] = "update"]
    /\ firedAt' = [firedAt EXCEPT ![c] = now]
    /\ hbExpiry' = [hbExpiry EXCEPT ![c] = RenewedExpiry(now)]
    /\ UNCHANGED <<now, rows, lockCounterMap, pc, lockRes, handle, locked,
                   timerAt, hbErr, unlockCancelled, passCancelled, ctxCancelled,
                   unlockRes, writtenAt,
                   uctxCancelled, scanRes, libVars>>

\* Mutant of AfterRenewal: a renewal that failed its condition is tried again
\* after the next timer.
AfterRenewalRetry(ok) == "timer"

\* Where the heartbeat loop goes after the renewal's UpdateItem returned: the
\* next iteration when err == nil, getExistingLock and out on a conditional
\* check failure.
AfterRenewal(ok) == IF ok THEN "timer" ELSE "getExisting"

\* The store applies the renewal's UpdateItem; on success the loop starts the
\* next timer, on a conditional check failure it goes on to getExistingLock.
HbUpdate(c) ==
    /\ hb[c] = "update"
    /\ ~ctxCancelled[c]
    /\ LET k == handle[c].key
           ok == UpdateCondition(rows[k], handle[c].version)
       IN /\ rows' = IF ok THEN [rows EXCEPT ![k] = SetExpires(@, hbExpiry[c])] ELSE rows
          /\ writtenAt' = IF ok THEN [writtenAt EXCEPT ![k] = now] ELSE writtenAt
          /\ hb' = [hb EXCEPT ![c] = AfterRenewal(ok)]
          /\ timerAt' = [timerAt EXCEPT ![c] = IF ok THEN now + HeartbeatInterval ELSE @]
    /\ UNCHANGED <<now, lockCounterMap, pc, lockRes, handle, locked, firedAt,
                   hbExpiry, hbErr, unlockCancelled, passCancelled, ctxCancelled,
                   unlockRes,
                   uctxCancelled, scanRes, libVars>>

\* The renewal's UpdateItem with ctx cancelled: the call returns the context
\* error, whether or not the store had applied the request.
HbUpdateCancelled(c) ==
    /\ hb[c] = "update"
    /\ ctxCancelled[c]
    /\ \E applied \in BOOLEAN :
         LET k == handle[c].key
             ok == applied /\ UpdateCondition(rows[k], handle[c].version)
         IN /\ rows' = IF ok THEN [rows EXCEPT ![k] = SetExpires(@, hbExpiry[c])] ELSE rows
            /\ writtenAt' = IF ok THEN [writtenAt EXCEPT ![k] = now] ELSE writtenAt
    /\ HeartbeatExit(c, "ctx")
    /\ UNCHANGED <<now, lockCounterMap, pc, lockRes, handle, locked, timerAt,
                   firedAt, hbExpiry, unlockCancelled, ctxCancelled, unlockRes,
                   uctxCancelled, scanRes, libVars>>

\* getExistingLock after the renewal's conditional check failure.
HbGetExisting(c) ==
    /\ hb[c] = "getExisting"
    /\ HeartbeatExit(c, IF ctxCancelled[c] THEN "ctx" ELSE "lost")
    /\ UNCHANGED <<now, rows, lockCounterMap, pc, lockRes, handle, locked,
                   timerAt, firedAt, hbExpiry, unlockCancelled, ctxCancelled,
                   unlockRes, writtenAt,
                   uctxCancelled, scanRes, libVars>>

\* case <-unlockCtx.Done()
HbDone(c) ==
    /\ hb[c] = "timer"
    /\ UnlockCtxDone(c)
    /\ HeartbeatExit(c, HeartbeatDoneErr(c))
    /\ UNCHANGED <<now, rows, lockCounterMap, pc, lockRes, handle, locked,
                   timerAt, firedAt, hbExpiry, unlockCancelled, ctxCancelled,
                   unlockRes, writtenAt,
                   uctxCancelled, scanRes, libVars>>

\* ----------------------------------------------------------------- Unlock
\* Mutant of UnlockResult: a release that went through returns nil.
UnlockResultDropsHeartbeat(updated, heartbeatErr) == IF updated THEN "nil" ELSE "notLocked"

\* Unlock's return value, given whether its UpdateItem passed the condition.
UnlockResult(updated, heartbeatErr) == IF updated THEN heartbeatErr ELSE "notLocked"

\* Mutant of ReleasedExpiry: the release leaves one heartbeat interval of lease.
ReleasedExpiryLater(t) == t + HeartbeatInterval

\* :expires_unix_nano of Unlock's UpdateItem: time.Now()
ReleasedExpiry(t) == t

\* Mutant of HeartbeatWaited: Unlock goes on without waiting for the heartbeat.
HeartbeatNotAwaited(c) == TRUE

\* heartbeatErrGroup.Wait() returns once the heartbeat goroutine has returned.
HeartbeatWaited(c) == hb[c] = "exited"

\* Unlock: dl.unlockCtxCancel(), then blocks in heartbeatErrGroup.Wait().
UnlockStart(c) ==
    /\ pc[c] \in {"holding", "released"}
    /\ Len(unlockRes[c]) < MaxUnlocks
    /\ pc' = [pc EXCEPT ![c] = "unlockWait"]
    /\ unlockCancelled' = [unlockCancelled EXCEPT ![c] = TRUE]
    /\ uctxCancelled' = [uctxCancelled EXCEPT ![c] = FALSE]
    /\ UNCHANGED <<now, rows, lockCounterMap, lockRes, handle, locked, hb,
                   timerAt, firedAt, hbExpiry, hbErr, passCancelled, ctxCancelled,
                   unlockRes, writtenAt, scanRes, libVars>>

\* Unlock after Wait() returned: the conditional UpdateItem and the return.
UnlockUpdate(c) ==
    /\ pc[c] = "unlockWait"
    /\ HeartbeatWaited(c)
    /\ ~uctxCancelled[c]
    /\ LET k == handle[c].key
           ok == UpdateCondition(rows[k], handle[c].version)
       IN /\ rows' = IF ok THEN [rows EXCEPT ![k] = SetExpires(@, ReleasedExpiry(now))] ELSE rows
          /\ writtenAt' = IF ok THEN [writtenAt EXCEPT ![k] = now] ELSE writtenAt
          /\ unlockRes' = [unlockRes EXCEPT ![c] = Append(@, UnlockResult(ok, hbErr[c]))]
    /\ pc' = [pc EXCEPT ![c] = "released"]
    /\ UNCHANGED <<now, lockCounterMap, lockRes, handle, locked, hb, timerAt,
                   firedAt, hbExpiry, hbErr, unlockCancelled, passCancelled,
                   ctxCancelled,
                   uctxCancelled, scanRes, libVars>>

\* ------------------------------------------------------------ environment
\* The caller cancels the ctx it gave to Lock.
CancelCtx(c) ==
    /\ pc[c] \in {"holding", "unlockWait"}
    /\ ~ctxCancelled[c]
    /\ ctxCancelled' = [ctxCancelled EXCEPT ![c] = TRUE]
    /\ UNCHANGED <<now, rows, lockCounterMap, pc, lockRes, handle, locked, hb,
                   timerAt, firedAt, hbExpiry, hbErr, unlockCancelled,
                   passCancelled, unlockRes, writtenAt,
                   uctxCancelled, scanRes, libVars>>

\* The holder's process dies: no more heartbeats, no Unlock. A renewal that
\* was in flight may or may not reach the store.
Crash(c) ==
    /\ pc[c] = "holding"
    /\ pc' = [pc EXCEPT ![c] = "crashed"]
    /\ hb' = [hb EXCEPT ![c] = "crashed"]
    /\ \E applied \in BOOLEAN :
         LET k == handle[c].key
             ok == /\ applied
                   /\ hb[c] = "update"
                   /\ UpdateCondition(rows[k], handle[c].version)
         IN /\ rows' = IF ok THEN [rows EXCEPT ![k] = SetExpires(@, hbExpiry[c])] ELSE rows
            /\ writtenAt' = IF ok THEN [writtenAt EXCEPT ![k] = now] ELSE writtenAt
    /\ UNCHANGED <<now, lockCounterMap, lockRes, handle, locked, timerAt, firedAt,
                   hbExpiry, hbErr, unlockCancelled, passCancelled, ctxCancelled,
                   unlockRes,
                   uctxCancelled, scanRes, libVars>>

\* The caller cancels the ctx it gave to the Unlock call in progress.
CancelUnlockCtx(c) ==
    /\ pc[c] = "unlockWait"
    /\ ~uctxCancelled[c]
    /\ uctxCancelled' = [uctxCancelled EXCEPT ![c] = TRUE]
    /\ UNCHANGED <<now, rows, lockCounterMap, pc, lockRes, handle, locked, hb,
                   timerAt, firedAt, hbExpiry, hbErr, unlockCancelled,
                   passCancelled, ctxCancelled, unlockRes, writtenAt, scanRes,
                   libVars>>

\* Unlock after Wait() returned, its ctx cancelled: UpdateItem returns the
\* context error, whether or not the store had applied the request, and
\* Unlock returns stackerr.Wrap(err).
UnlockUpdateCancelled(c) ==
    /\ pc[c] = "unlockWait"
    /\ HeartbeatWaited(c)
    /\ uctxCancelled[c]
    /\ \E applied \in BOOLEAN :
         LET k == handle[c].key
             ok == applied /\ UpdateCondition(rows[k], handle[c].version)
         IN /\ rows' = IF ok THEN [rows EXCEPT ![k] = SetExpires(@, ReleasedExpiry(now))] ELSE rows
            /\ writtenAt' = IF ok THEN [writtenAt EXCEPT ![k] = now] ELSE writtenAt
    /\ unlockRes' = [unlockRes EXCEPT ![c] = Append(@, "ctx")]
    /\ pc' = [pc EXCEPT ![c] = "released"]
    /\ uctxCancelled' = [uctxCancelled EXCEPT ![c] = FALSE]
    /\ UNCHANGED <<now, lockCounterMap, lockRes, handle, locked, hb, timerAt,
                   firedAt, hbExpiry, hbErr, unlockCancelled, passCancelled,
                   ctxCancelled, scanRes, libVars>>

\* ------------------------------------------------------------- list calls
\* getLocks(ctx, typ): the paginated Scan, then the decoding of its items.
getLocks(typ) ==
    /\ \E order \in ScanOrders :
         LET items == AppendPages(<<>>, Pages(ScanItems(typ, rows, order, now)))
             res == TransformSliceToMapWithErr(items, <<>>, now)
         IN scanRes' = [scanRes EXCEPT ![typ] =
                [called |-> TRUE, err |-> res.err, locks |-> res.locks, at |-> now]]
    /\ UNCHANGED <<now, rows, lockCounterMap, pc, lockRes, handle, locked, hb,
                   timerAt, firedAt, hbExpiry, hbErr, unlockCancelled,
                   passCancelled, ctxCancelled, unlockRes, uctxCancelled, writtenAt,
                   libVars>>

GetAllLocks == getLocks("all")
GetActiveLocks == getLocks("active")
GetExpiredLocks == getLocks("expired")

\* ------------------------------------------------------------ store faults
\* Lock whose PutItem fails with an error that is not a conditional check
\* failure: the counter was incremented, the row is untouched, no heartbeat is
\* started and Lock returns only the error.
LockPutFault(c, k, m) ==
    /\ pc[c] \in {"idle", "released"}
    /\ lockCounterMap[ProcOf(c)][k] < MaxAttempts
    /\ lockCounterMap' = [lockCounterMap EXCEPT ![ProcOf(c)][k] = Add(@, 1)]
    /\ pc' = [pc EXCEPT ![c] = "idle"]
    /\ lockRes' = [lockRes EXCEPT ![c] =
           [called |-> TRUE, newLock |-> FALSE, existing |-> NoLockData,
            err |-> "store", key |-> k, seq |-> Attempts, putAt |-> now,
            getAt |-> now, lockCount |-> Add(lockCounterMap[ProcOf(c)][k], 1) - 1]]
    /\ handle' = [handle EXCEPT ![c] = NoHandle]
    /\ locked' = [locked EXCEPT ![c] = FALSE]
    /\ hb' = [hb EXCEPT ![c] = "none"]
    /\ timerAt' = [timerAt EXCEPT ![c] = 0]
    /\ firedAt' = [firedAt EXCEPT ![c] = -1]
    /\ hbExpiry' = [hbExpiry EXCEPT ![c] = 0]
    /\ hbErr' = [hbErr EXCEPT ![c] = "nil"]
    /\ unlockCancelled' = [unlockCancelled EXCEPT ![c] = FALSE]
    /\ passCancelled' = [passCancelled EXCEPT ![c] = FALSE]
    /\ ctxCancelled' = [ctxCancelled EXCEPT ![c] = FALSE]
    /\ unlockRes' = [unlockRes EXCEPT ![c] = <<>>]
    /\ uctxCancelled' = [uctxCancelled EXCEPT ![c] = FALSE]
    /\ UNCHANGED <<now, rows, writtenAt, scanRes, libVars>>

\* getExistingLock's GetItem fails after the conditional check failure.
LockGetExistingFault(c) ==
    /\ pc[c] = "getExisting"
    /\ lockRes' = [lockRes EXCEPT ![c] =
           [@ EXCEPT !.called = TRUE, !.err = "store", !.getAt = now]]
    /\ pc' = [pc EXCEPT ![c] = "idle"]
    /\ UNCHANGED <<now, rows, lockCounterMap, handle, locked, hb, timerAt,
                   firedAt, hbExpiry, hbErr, unlockCancelled, passCancelled,
                   ctxCancelled, unlockRes, writtenAt,
                   uctxCancelled, scanRes, libVars>>

\* The renewal's UpdateItem returns an error that is not a conditional check
\* failure (the store may or may not have applied the request): the goroutine
\* returns stackerr.Wrap(err).
HbUpdateFault(c) ==
    /\ hb[c] = "update"
    /\ ~ctxCancelled[c]
    /\ \E applied \in BOOLEAN :
         LET k == handle[c].key
             ok == applied /\ UpdateCondition(rows[k], handle[c].version)
         IN /\ rows' = IF ok THEN [rows EXCEPT ![k] = SetExpires(@, hbExpiry[c])] ELSE rows
            /\ writtenAt' = IF ok THEN [writtenAt EXCEPT ![k] = now] ELSE writtenAt
    /\ HeartbeatExit(c, "store")
    /\ UNCHANGED <<now, lockCounterMap, pc, lockRes, handle, locked, timerAt,
                   firedAt, hbExpiry, unlockCancelled, ctxCancelled, unlockRes,
                   uctxCancelled, scanRes, libVars>>

\* getExistingLock's GetItem fails after the renewal's conditional check failure.
HbGetExistingFault(c) ==
    /\ hb[c] = "getExisting"
    /\ ~ctxCancelled[c]
    /\ HeartbeatExit(c, "store")
    /\ UNCHANGED <<now, rows, lockCounterMap, pc, lockRes, handle, locked,
                   timerAt, firedAt, hbExpiry, unlockCancelled, ctxCancelled,
                   unlockRes, writtenAt,
                   uctxCancelled, scanRes, libVars>>

\* Unlock's UpdateItem returns an error that is not a conditional check
\* failure: Unlock returns stackerr.Wrap(err), the row is untouched.
UnlockUpdateFault(c) ==
    /\ pc[c] = "unlockWait"
    /\ HeartbeatWaited(c)
    /\ ~uctxCancelled[c]
    /\ unlockRes' = [unlockRes EXCEPT ![c] = Append(@, "store")]
    /\ pc' = [pc EXCEPT ![c] = "released"]
    /\ UNCHANGED <<now, rows, lockCounterMap, lockRes, handle, locked, hb,
                   timerAt, firedAt, hbExpiry, hbErr, unlockCancelled,
                   passCancelled, ctxCancelled, writtenAt,
                   uctxCancelled, scanRes, libVars>>

\* The life cycle of the handles while no acquire context is cancelled.
Next ==
    \/ Tick
    \/ \E c \in Clients, k \in Keys : \E m \in MetadataArgs(c) : Lock(c, k, m)
    \/ \E c \in Clients : LockGetExisting(c)
    \/ \E c \in Clients : HbTimer(c)
    \/ \E c \in Clients : HbUpdate(c)
    \/ \E c \in Clients : HbGetExisting(c)
    \/ \E c \in Clients : HbDone(c)
    \/ \E c \in Clients : UnlockStart(c)
    \/ \E c \in Clients : UnlockUpdate(c)
    \/ \E c \in Clients : Crash(c)

Spec == Init /\ [][Next]_vars

\* The same, the callers also cancelling the ctx they gave to Lock.
CancelNext ==
    \/ Next
    \/ \E c \in Clients : CancelCtx(c)
    \/ \E c \in Clients : HbUpdateCancelled(c)

SpecCancel == Init /\ [][CancelNext]_vars

\* The runtime schedules every heartbeat goroutine, every store call it
\* issued returns, and the clock advances.
HeartbeatFairness ==
    /\ WF_vars(Tick)
    /\ \A c \in Clients :
         /\ WF_vars(HbTimer(c))
         /\ WF_vars(HbUpdate(c))
         /\ WF_vars(HbGetExisting(c))
         /\ WF_vars(HbDone(c))

SpecFair == Spec /\ HeartbeatFairness

\* The life cycle of the handles while no process dies.
HandleNext ==
    \/ Tick
    \/ \E c \in Clients, k \in Keys : \E m \in MetadataArgs(c) : Lock(c, k, m)
    \/ \E c \in Clients : LockGetExisting(c)
    \/ \E c \in Clients : HbTimer(c)
    \/ \E c \in Clients : HbUpdate(c)
    \/ \E c \in Clients : HbGetExisting(c)
    \/ \E c \in Clients : HbDone(c)
    \/ \E c \in Clients : UnlockStart(c)
    \/ \E c \in Clients : UnlockUpdate(c)

\* The same over a store whose calls may fail under Lock and under the heartbeat.
FaultNext ==
    \/ HandleNext
    \/ \E c \in Clients, k \in Keys : \E m \in MetadataArgs(c) : LockPutFault(c, k, m)
    \/ \E c \in Clients : LockGetExistingFault(c)
    \/ \E c \in Clients : HbUpdateFault(c)
    \/ \E c \in Clients : HbGetExistingFault(c)

SpecFault == Init /\ [][FaultNext]_vars

\* The same over a store whose calls may fail under the renewal and under Unlock.
UnlockFaultNext ==
    \/ HandleNext
    \/ \E c \in Clients : HbUpdateFault(c)
    \/ \E c \in Clients : UnlockUpdateFault(c)

SpecUnlockFault == Init /\ [][UnlockFaultNext]_vars

\* The life cycle of the handles, the callers also cancelling the ctx they
\* gave to Unlock.
UnlockCancelNext ==
    \/ HandleNext
    \/ \E c \in Clients : CancelUnlockCtx(c)
    \/ \E c \in Clients : UnlockUpdateCancelled(c)

SpecUnlockCancel == Init /\ [][UnlockCancelNext]_vars

\* The instants the rows of a scanned table expire at.
ScanTimes == {t \in 0..MaxTime : t % TimeStep = 0}

\* The rows a scanned table may hold under key k: none, or a row some Lock
\* wrote and renewals or an Unlock moved the expiry of, or such a row whose
\* acquired column was overwritten from outside with something else than a number.
TableItems(k) ==
    {NoRow} \cup
    {[LockItem(c, k, NilMeta, 0, 0) EXCEPT !.expires = e, !.acquired = a] :
        c \in Clients, e \in ScanTimes, a \in {0, NotANumber}}

\* A table of several rows, no Lock or Unlock in progress.
ScanInit ==
    /\ now = 0
    /\ rows \in {tbl \in [ScanKeys -> UNION {TableItems(k) : k \in ScanKeys}] :
                    \A k \in ScanKeys : tbl[k] \in TableItems(k)}
    /\ lockCounterMap = [p \in Procs |-> [k \in Keys |-> 0]]
    /\ pc = [c \in Callers |-> "idle"]
    /\ lockRes = [c \in Callers |-> NoLockRes]
    /\ handle = [c \in Callers |-> NoHandle]
    /\ locked = [c \in Callers |-> FALSE]
    /\ hb = [c \in Callers |-> "none"]
    /\ timerAt = [c \in Callers |-> 0]
    /\ firedAt = [c \in Callers |-> -1]
    /\ hbExpiry = [c \in Callers |-> 0]
    /\ hbErr = [c \in Callers |-> "nil"]
    /\ unlockCancelled = [c \in Callers |-> FALSE]
    /\ passCancelled = [c \in Callers |-> FALSE]
    /\ ctxCancelled = [c \in Callers |-> FALSE]
    /\ unlockRes = [c \in Callers |-> <<>>]
    /\ uctxCancelled = [c \in Callers |-> FALSE]
    /\ scanRes = [typ \in lockTypes |-> NoScanRes]
    /\ writtenAt = [k \in Keys |-> 0]
    /\ LibInit

\* The list calls over such a table while the clock advances.
ScanNext ==
    \/ Tick
    \/ GetAllLocks
    \/ GetActiveLocks
    \/ GetExpiredLocks

SpecScan == ScanInit /\ [][ScanNext]_vars

\* The goroutines on the CtxMutex, the distributed lock idle.
SpecMutex == Init /\ [][MutexNext]_vars

\* Goroutines sharing one MultiLock, each calling LockAll and then the
\* matching UnlockAll.
SpecMulti == Init /\ [][MultiNext]_vars

\* The runtime schedules every goroutine; a goroutine that holds keys goes on
\* to call UnlockAll; a goroutine blocked in sync.Mutex.Lock gets the mutex
\* once it is free (a waiter of allLock is not overtaken forever: sync.Mutex
\* hands the mutex to a starving waiter).
MultiFairness ==
    \A g \in MultiUsers :
        /\ SF_vars(LockAllAcquire(g))
        /\ \A k \in LockKeySet : WF_vars(LockAllWorker(g, k))
        /\ WF_vars(LockAllReturn(g))
        /\ WF_vars(UnlockAllCall(g))
        /\ WF_vars(UnlockAllStep(g))
        /\ WF_vars(UnlockAllReturn(g))

SpecMultiFair == SpecMulti /\ MultiFairness

\* UnionUnique called on any argument list.
SpecUnion == Init /\ [][SliceNext]_vars

\* One PriorityQueue under any sequence of its methods.
SpecQueue == Init /\ [][QueueNext]_vars

\* Goroutines sharing one RingSlice: Next and Set in any interleaving.
SpecRing == Init /\ [][RingNext]_vars

\* Acquisition races: every caller calls Lock, nobody unlocks, cancels or
\* crashes, and the winners' heartbeats run.
RaceNext ==
    \/ Tick
    \/ \E c \in Callers, k \in Keys : \E m \in MetadataArgs(c) : Lock(c, k, m)
    \/ \E c \in Callers : LockGetExisting(c)
    \/ \E c \in Callers : HbTimer(c)
    \/ \E c \in Callers : HbUpdate(c)
    \/ \E c \in Callers : HbGetExisting(c)

SpecRace == Init /\ [][RaceNext]_vars

\* ================================================================== claims
\* The row of c's handle still carries the version c's Lock wrote.
HoldsRow(c) == handle[c].version # "" /\ rows[handle[c].key].version = handle[c].version

\* Another Lock has overwritten the row c's handle acquired.
Superseded(c) == handle[c].version # "" /\ rows[handle[c].key].version # handle[c].version

\* c's handle is alive: returned by Lock, not unlocked, heartbeat running.
Alive(c) == pc[c] = "holding" /\ hb[c] \in {"timer", "update"} /\ ~ctxCancelled[c]

\* The heartbeat's timer is not overdue (so a renewal in flight was issued at
\* this very instant).
OnSchedule(c) == now <= timerAt[c]

\* How long the store took to apply the renewal that started the current
\* timer (0 when the timer was started by Lock itself).
RenewalLatency(c) ==
    IF hb[c] = "timer" /\ firedAt[c] >= 0
    THEN timerAt[c] - HeartbeatInterval - firedAt[c]
    ELSE 0

\* This step is a Lock call of d on key k (up to and including PutItem).
LockStep(d, k) ==
    /\ pc[d] \in {"idle", "released"}
    /\ pc'[d] \in {"holding", "getExisting"}
    /\ lockRes'[d].key = k

\* C1: callers racing for a key: while the winner c holds its handle, no
\* other caller holds a handle acquired less than a lease duration apart, and
\* every call that reached the store after c's and returned within c's first
\* lease got a nil lock, a nil error and an existingLock carrying c's version.
C1_MutualExclusion ==
    \A c \in Callers : pc[c] = "holding" =>
      \A d \in Callers \ {c} :
        /\ (pc[d] = "holding" /\ handle[d].key = handle[c].key)
             => \/ handle[d].acquired >= handle[c].acquired + LockDuration
                \/ handle[c].acquired >= handle[d].acquired + LockDuration
        /\ ( /\ lockRes[d].called
             /\ lockRes[d].key = handle[c].key
             /\ lockRes[d].seq > handle[c].seq
             /\ lockRes[d].getAt < handle[c].acquired + LockDuration )
             => /\ ~lockRes[d].newLock
                /\ lockRes[d].err = "nil"
                /\ ~lockRes[d].existing.isNil
                /\ lockRes[d].existing.version = handle[c].version

\* Three callers called Lock at the same instant: one holds the lock, the
\* two others were handed the winner's row.
C1_Witness ==
    \E c \in Callers :
      /\ pc[c] = "holding"
      /\ \A d \in Callers \ {c} :
           /\ lockRes[d].called /\ ~lockRes[d].newLock
           /\ lockRes[d].putAt = handle[c].acquired
           /\ lockRes[d].existing.version = handle[c].version

\* C2: while a holder's heartbeat is running (no cancellation, no Unlock),
\* no other caller's conditional insert on the key can succeed; stated here
\* for the most favourable schedule: timer not overdue, renewal applied by
\* the store at the instant it was issued.
C2_HeartbeatKeepsLockHeld ==
    \A c \in Clients :
      (Alive(c) /\ HoldsRow(c) /\ OnSchedule(c) /\ RenewalLatency(c) = 0)
        => ~(~rows[handle[c].key].exists \/ rows[handle[c].key].expires <= now)

\* C3: while a handle is alive and un-contended, its heartbeat's timer not
\* overdue and the store's latency on the last renewal at most one heartbeat
\* interval, the row's expires_at is not in the past.
C3_ExpiresNotInPast ==
    \A c \in Clients :
      (Alive(c) /\ HoldsRow(c) /\ OnSchedule(c)
         /\ RenewalLatency(c) <= HeartbeatInterval)
        => rows[handle[c].key].expires >= now

\* C4: once another Lock has overwritten the row of c's handle, no step of
\* that handle changes the table; its renewal fails the guard and reports the
\* lock lost, and every Unlock on it returns the not-locked error.
C4_Fencing ==
    [][\A c \in Clients :
         (Superseded(c) /\ handle'[c] = handle[c]) =>
           /\ (hb'[c] # hb[c] \/ pc'[c] # pc[c] \/ unlockRes'[c] # unlockRes[c])
                => rows' = rows
           /\ (hb[c] = "update" /\ hb'[c] # "update" /\ ~ctxCancelled[c]
                 /\ pc'[c] # "crashed")
                => hb'[c] = "getExisting"
           /\ (hb[c] = "getExisting" /\ hb'[c] = "exited" /\ ~ctxCancelled[c])
                => hbErr'[c] = "lost"
           /\ (Len(unlockRes'[c]) > Len(unlockRes[c]))
                => unlockRes'[c][Len(unlockRes'[c])] = "notLocked"
      ]_vars

\* A superseded handle whose heartbeat reported the loss and whose Unlock
\* was refused, the new holder's row still in place.
C4_Witness ==
    \E c \in Clients, d \in Clients :
      /\ Superseded(c) /\ HoldsRow(d)
      /\ hbErr[c] = "lost"
      /\ unlockRes[c] = <<"notLocked">>

\* C5: a second Unlock on a handle whose first Unlock succeeded, nobody else
\* having acquired the key, returns the not-locked (release conflict) error.
C5_SecondUnlockConflicts ==
    \A c \in Clients :
      (Len(unlockRes[c]) >= 2 /\ unlockRes[c][1] = "nil" /\ HoldsRow(c))
        => unlockRes[c][2] = "notLocked"

\* C6: a Lock call wins exactly when the row is absent or has
\* expires_at <= now, and a winning call replaces the row's version,
\* acquired_at, expires_at (now + lease duration), logs URL and metadata by the
\* caller's; a losing call leaves the table as it was.
C6_ExpiryReclaim ==
    [][\A d \in Clients, k \in Keys :
         LockStep(d, k) =>
           /\ pc'[d] = "holding"
                <=> (~rows[k].exists \/ rows[k].expires <= now)
           /\ pc'[d] = "holding" =>
                /\ rows'[k].exists /\ rows'[k].key = k
                /\ rows'[k].version = handle'[d].version
                /\ rows'[k].version # rows[k].version
                /\ rows'[k].acquired = now
                /\ rows'[k].expires = now + LockDuration
                /\ rows'[k].logsUrl = LogsUrlOf(d)
                /\ rows'[k].metadata \in {MarshalMetadata(m) : m \in MetadataArgs(d)}
           /\ pc'[d] # "holding" => rows' = rows
      ]_vars

\* A row that still exists with expires_at <= now was taken over: c's older
\* handle is superseded by d's, acquired at or after the old row's expiry.
C6_Witness ==
    \E c \in Clients, d \in Clients :
      /\ Superseded(c) /\ HoldsRow(d) /\ pc[d] = "holding"
      /\ handle[d].acquired > handle[c].acquired
      /\ rows[handle[d].key].expires = handle[d].acquired + LockDuration

\* C7: a renewal whose request was built at time t leaves the row with
\* expires_at = t + lease duration.
C7_RenewalTarget ==
    \A c \in Clients :
      (hb[c] = "timer" /\ firedAt[c] >= 0 /\ HoldsRow(c))
        => rows[handle[c].key].expires = firedAt[c] + LockDuration

\* C8: the row of a crashed holder expires at most one lease duration after
\* the store last wrote it, and from then on a Lock by another caller wins.
C8_CrashRecovery ==
    /\ [](\A c \in Clients :
            (pc[c] = "crashed" /\ HoldsRow(c))
              => rows[handle[c].key].expires <= writtenAt[handle[c].key] + LockDuration)
    /\ [][\A c \in Clients, d \in Clients :
            ( /\ pc[c] = "crashed" /\ HoldsRow(c)
              /\ LockStep(d, handle[c].key)
              /\ now >= rows[handle[c].key].expires )
              => /\ pc'[d] = "holding"
                 /\ rows'[handle[c].key].version = handle'[d].version
       ]_vars

\* A holder crashed and another caller took the key over.
C8_Witness ==
    \E c \in Clients, d \in Clients :
      /\ pc[c] = "crashed" /\ Superseded(c)
      /\ pc[d] = "holding" /\ HoldsRow(d)
      /\ handle[d].acquired >= handle[c].acquired + LockDuration

\* C9: once Unlock has been called on a handle whose acquire context is not
\* cancelled and whose heartbeat did not detect a lost lease, the context
\* Lock returned is not cancelled.
C9_UnlockKeepsPassthrough ==
    \A c \in Clients :
      (unlockCancelled[c] /\ ~ctxCancelled[c] /\ hbErr[c] # "lost")
        => ~PassthroughDone(c)

\* Unlock has returned nil after at least one heartbeat renewal, and the
\* context Lock returned is still live.
C9_Witness ==
    \E c \in Clients :
      /\ unlockRes[c] = <<"nil">> /\ firedAt[c] >= 0 /\ hb[c] = "exited"
      /\ ~ctxCancelled[c] /\ ~PassthroughDone(c)

\* The last clock value the model reaches.
LastTime == (MaxTime \div TimeStep) * TimeStep

\* C10: once another Lock has superseded a live handle (heartbeat running, its
\* timer due within the modelled time), the heartbeat eventually ends with
\* the lock-lost error and the context Lock returned is cancelled, unless the
\* handle is released, its acquire context cancelled or its process dead first.
C10_LeaseLossSignalled ==
    \A c \in Clients :
      (Superseded(c) /\ hb[c] \in {"timer", "update", "getExisting"}
         /\ timerAt[c] <= LastTime)
        ~> \/ (hb[c] = "exited" /\ hbErr[c] = "lost" /\ passCancelled[c])
           \/ unlockCancelled[c] \/ ctxCancelled[c] \/ pc[c] = "crashed"

\* A handle that was superseded and never released: its heartbeat ended with
\* the lock-lost error and cancelled the context Lock returned.
C10_Witness ==
    \E c \in Clients :
      /\ Superseded(c) /\ pc[c] = "holding" /\ ~unlockCancelled[c] /\ ~ctxCancelled[c]
      /\ hb[c] = "exited" /\ hbErr[c] = "lost" /\ PassthroughDone(c)

\* The heartbeat goroutine of c's handle returned a store error.
HeartbeatFaulted(c) == hb[c] = "exited" /\ hbErr[c] = "store"

\* C11 as stated: a heartbeat renewal that fails with a store error other than
\* a conditional check failure leaves the propagation context uncancelled.
C11_FaultKeepsPassthrough ==
    \A c \in Clients : HeartbeatFaulted(c) => ~PassthroughDone(c)

\* C11, amended: the propagation context is cancelled exactly when the heartbeat
\* goroutine has returned an error, a store error included, and after a store
\* error no Unlock on the handle returns nil.
C11_FaultCancelsPassthrough ==
    \A c \in Clients :
        /\ passCancelled[c] <=> hbErr[c] # "nil"
        /\ HeartbeatFaulted(c) =>
               \A i \in 1..Len(unlockRes[c]) : unlockRes[c][i] # "nil"

\* A renewal failed at the store, and the Unlock that followed returned that error.
C11_Witness ==
    \E c \in Clients :
        /\ HeartbeatFaulted(c)
        /\ passCancelled[c]
        /\ unlockRes[c] = <<"store">>
        /\ rows[handle[c].key].expires = writtenAt[handle[c].key]

\* How many of newLock, existingLock and err a returned Lock call set.
ReturnedNonNil(res) ==
    (IF res.newLock THEN 1 ELSE 0) + (IF res.existing.isNil THEN 0 ELSE 1)
        + (IF res.err = "nil" THEN 0 ELSE 1)

\* C12: a Lock whose conditional insert fails on an unexpired row leaves the
\* row unchanged and starts no heartbeat; it returns no lock, no error and the
\* existing lock decoded from the row as it is read; and every return of Lock
\* sets exactly one of newLock, existingLock and err.
C12_ContentionIsData ==
    [][\A c \in Clients :
         /\ (pc[c] \in {"idle", "released"} /\ pc'[c] = "getExisting") =>
                /\ rows' = rows
                /\ ~PutCondition(rows[lockRes'[c].key], now)
                /\ hb'[c] = "none" /\ handle'[c] = NoHandle
         /\ (pc[c] = "getExisting" /\ pc'[c] = "idle" /\ lockRes'[c].err = "nil") =>
                LET row == rows[lockRes[c].key]
                    existing == lockRes'[c].existing
                IN /\ rows' = rows /\ hb'[c] = "none"
                   /\ ~lockRes'[c].newLock
                   /\ ~existing.isNil
                   /\ existing.key = row.key /\ existing.version = row.version
                   /\ existing.acquired = row.acquired
                   /\ existing.expires = row.expires
                   /\ existing.active = (row.expires > now)
         /\ lockRes'[c].called => ReturnedNonNil(lockRes'[c]) = 1
      ]_vars

\* A Lock lost to an unexpired row and returned that row, still held by its owner.
C12_Witness ==
    \E c, d \in Clients :
        /\ c # d
        /\ pc[c] = "idle" /\ lockRes[c].called /\ hb[c] = "none"
        /\ ~lockRes[c].newLock /\ lockRes[c].err = "nil"
        /\ lockRes[c].existing.active
        /\ lockRes[c].existing.version = handle[d].version
        /\ HoldsRow(d)

\* The last Unlock on c's handle returned nil and no Lock has succeeded since.
ReleasedClean(c) ==
    /\ pc[c] = "released"
    /\ unlockRes[c] # <<>> /\ unlockRes[c][Len(unlockRes[c])] = "nil"
    /\ HoldsRow(c)

\* C13: after Unlock returned nil, and until another Lock succeeds, the row's
\* expires_at is at most the current time, and the next Lock on the key, by
\* any caller and at any time, acquires it.
C13_EarlyRelease ==
    /\ [](\A c \in Clients :
            ReleasedClean(c) => rows[handle[c].key].expires <= now)
    /\ [][\A c \in Clients, d \in Clients :
            (ReleasedClean(c) /\ LockStep(d, handle[c].key)) =>
                /\ pc'[d] = "holding"
                /\ rows'[handle[c].key].version = handle'[d].version
         ]_vars

\* c released its lock with a nil Unlock and d acquired the key before c's
\* lease would have run out.
C13_Witness ==
    \E c, d \in Clients :
        /\ c # d
        /\ pc[c] = "released" /\ unlockRes[c] = <<"nil">> /\ Superseded(c)
        /\ pc[d] = "holding" /\ HoldsRow(d)
        /\ handle[d].key = handle[c].key
        /\ handle[d].acquired < handle[c].acquired + LockDuration

\* C14: a Lock followed by a voluntary Unlock, the acquire context not
\* cancelled, the row not taken by another acquirer and no store fault: the
\* heartbeat goroutine, once Unlock cancelled its scope, returns no error and
\* leaves the propagation context alone, and Unlock returns nil.
C14_CleanCycle ==
    [][\A c \in Clients :
         (~ctxCancelled[c] /\ ~ctxCancelled'[c] /\ HoldsRow(c)) =>
            /\ (hb[c] # "exited" /\ hb'[c] = "exited" /\ unlockCancelled[c]) =>
                   hbErr'[c] = "nil" /\ ~passCancelled'[c]
            /\ (pc[c] = "unlockWait" /\ pc'[c] = "released" /\ unlockRes[c] = <<>>) =>
                   /\ hbErr[c] = "nil"
                   /\ unlockRes'[c] = <<"nil">>
                   /\ ~PassthroughDone(c)
      ]_vars

\* A handle that was renewed at least once and then released: the heartbeat
\* returned nil and so did Unlock.
C14_Witness ==
    \E c \in Clients :
        /\ pc[c] = "released" /\ unlockRes[c] = <<"nil">>
        /\ hb[c] = "exited" /\ hbErr[c] = "nil"
        /\ firedAt[c] >= 0
        /\ ~ctxCancelled[c] /\ ~passCancelled[c]

\* C15: once the heartbeat goroutine of a handle has returned an error, every
\* Unlock on the handle returns a non-nil error, and an Unlock whose
\* conditional update went through returns the heartbeat's error.
C15_FailedHeartbeatReported ==
    [][\A c \in Clients :
         (pc[c] = "unlockWait" /\ pc'[c] = "released" /\ hbErr[c] # "nil") =>
            LET k == handle[c].key
                res == unlockRes'[c][Len(unlockRes'[c])]
                updated == /\ UpdateCondition(rows[k], handle[c].version)
                           /\ rows'[k].expires = ReleasedExpiry(now)
                           /\ writtenAt'[k] = now
            IN /\ Len(unlockRes'[c]) = Len(unlockRes[c]) + 1
               /\ res # "nil"
               /\ updated => res = hbErr[c]
      ]_vars

\* The heartbeat failed on a store error while c still owned the row; both
\* Unlock calls on the handle then returned an error, and the row was released.
C15_Witness ==
    \E c \in Clients :
        /\ HeartbeatFaulted(c) /\ HoldsRow(c)
        /\ pc[c] = "released" /\ Len(unlockRes[c]) = 2
        /\ unlockRes[c][1] = "store" /\ unlockRes[c][2] # "nil"
        /\ rows[handle[c].key].expires <= now
        /\ firedAt[c] < writtenAt[handle[c].key]

\* C16: an Unlock call whose ctx has been cancelled is not kept waiting by a
\* store call of the heartbeat goroutine (the renewal in flight, or the read
\* of the row after it).
C16_CancelAbortsUnlock ==
    \A c \in Clients :
        (pc[c] = "unlockWait" /\ uctxCancelled[c] /\ ~ctxCancelled[c]) =>
            hb[c] \notin {"update", "getExisting"}

\* c's acquire context was cancelled while c held its handle and had not
\* called Unlock.
CancelledHolding(c) == ctxCancelled[c] /\ pc[c] = "holding"

\* C17: once the ctx given to Lock is cancelled on a held, unreleased handle,
\* the heartbeat goroutine can return at once, and returns without starting
\* another timer; it returns an error and the propagation context is
\* cancelled; after it returned, the handle never moves the row's expires_at
\* again, and the row is acquirable as soon as the clock reaches that expires_at.
C17_CancelStopsRenewal ==
    /\ [](\A c \in Clients : CancelledHolding(c) =>
            /\ PassthroughDone(c)
            /\ hb[c] \in {"timer", "update", "getExisting"} =>
                   ENABLED (HbDone(c) \/ HbUpdateCancelled(c) \/ HbGetExisting(c))
            /\ hb[c] = "exited" => hbErr[c] # "nil" /\ passCancelled[c]
            /\ (hb[c] = "exited" /\ HoldsRow(c)) =>
                   /\ rows[handle[c].key].expires <= writtenAt[handle[c].key] + LockDuration
                   /\ now >= rows[handle[c].key].expires
                          => PutCondition(rows[handle[c].key], now))
    /\ [][\A c \in Clients : CancelledHolding(c) =>
            /\ hb[c] # "timer" => hb'[c] # "timer"
            /\ (hb[c] = "exited" /\ HoldsRow(c) /\ HoldsRow(c)') =>
                   rows'[handle[c].key].expires = rows[handle[c].key].expires
         ]_vars

\* c's acquire context was cancelled while it held the lock: its heartbeat
\* returned the context error, the lease ran out and d acquired the key.
C17_Witness ==
    \E c, d \in Clients :
        /\ CancelledHolding(c) /\ hb[c] = "exited" /\ hbErr[c] = "ctx"
        /\ Superseded(c)
        /\ pc[d] = "holding" /\ HoldsRow(d) /\ handle[d].key = handle[c].key

\* The step overwrites the row of key k with a new holder's item.
Overwrites(k) == rows'[k].version # rows[k].version

\* The step is the conditional update of an Unlock on the handle that owns row k.
ReleaseStep(c, k) ==
    /\ pc[c] = "unlockWait" /\ pc'[c] = "released"
    /\ handle[c].key = k /\ HoldsRow(c)
    /\ rows'[k].expires = now

\* C18 as stated: a row's expires_at never decreases while its version stays,
\* and only a new holder's Lock overwriting an expired row moves it backward.
C18_OnlyLockMovesBack ==
    [][\A k \in Keys :
         rows'[k].expires < rows[k].expires =>
             Overwrites(k) /\ rows[k].exists /\ rows[k].expires <= now
      ]_vars

\* C18, amended: the renewals of a handle never move the row's expires_at
\* backward, and neither does a Lock that overwrites the row: it moves it
\* strictly forward. The one operation that moves expires_at backward is the
\* owner's Unlock, which sets it to the current time.
C18_OnlyUnlockMovesBack ==
    [][\A k \in Keys :
         /\ (Overwrites(k) /\ rows[k].exists) => rows'[k].expires > rows[k].expires
         /\ \A c \in Clients :
              (hb[c] = "update" /\ hb'[c] # "update" /\ handle[c].key = k) =>
                  rows'[k].expires >= rows[k].expires
         /\ rows'[k].expires < rows[k].expires =>
                \E c \in Clients : ReleaseStep(c, k)
      ]_vars

\* A handle that was renewed and then released before its lease ran out: the
\* row's expires_at is now earlier than the one the acquisition wrote.
C18_Witness ==
    \E c \in Clients :
        /\ pc[c] = "released" /\ unlockRes[c] = <<"nil">> /\ HoldsRow(c)
        /\ firedAt[c] >= 0
        /\ rows[handle[c].key].expires < InitialExpiry(handle[c].acquired)

\* The keys whose rows pass the filter of a list call at time t.
Matching(typ, t) ==
    {k \in DOMAIN rows : rows[k].exists /\ FilterExpression(typ, rows[k], t)}

\* The keys among them whose rows parseLockData decodes.
Decodable(S) == {k \in S : parseLockDataErr(rows[k]) = "nil"}

\* C19: a list call returns every decodable row that passes its filter, also
\* when another row fails to decode.
C19_DecodeFailuresIsolated ==
    \A typ \in lockTypes :
        (scanRes[typ].called /\ scanRes[typ].at = now) =>
            DOMAIN scanRes[typ].locks = Decodable(Matching(typ, now))

\* The three list calls were evaluated at the same instant t and none
\* returned an error.
ListedAt(t) ==
    \A typ \in lockTypes :
        scanRes[typ].called /\ scanRes[typ].at = t /\ scanRes[typ].err = "nil"

\* Active and expired results split the rows by expires_at > t and <= t, are
\* disjoint and add up to the result of GetAllLocks.
Partitioned(t) ==
    LET allKeys == DOMAIN scanRes["all"].locks
        activeKeys == DOMAIN scanRes["active"].locks
        expiredKeys == DOMAIN scanRes["expired"].locks
    IN /\ activeKeys = {k \in DOMAIN rows : rows[k].exists /\ rows[k].expires > t}
       /\ expiredKeys = {k \in DOMAIN rows : rows[k].exists /\ rows[k].expires <= t}
       /\ activeKeys \cap expiredKeys = {}
       /\ activeKeys \cup expiredKeys = allKeys
       /\ \A k \in activeKeys : scanRes["active"].locks[k].active
       /\ \A k \in expiredKeys : ~scanRes["expired"].locks[k].active

C21_TokensUnique ==
    /\ [](\A c \in Callers, d \in Callers :
            /\ lockRes[c].key # "" =>
                   /\ lockRes[c].lockCount >= 0
                   /\ lockRes[c].lockCount < lockCounterMap[ProcOf(c)][lockRes[c].key]
            /\ (c # d /\ ProcOf(c) = ProcOf(d) /\ lockRes[c].key # ""
                  /\ lockRes[c].key = lockRes[d].key) =>
                   /\ lockRes[c].lockCount # lockRes[d].lockCount
                   /\ (handle[c].version # "" /\ handle[d].version # "") =>
                          handle[c].version # handle[d].version)
    /\ [][\A p \in Procs, k \in Keys :
            \/ lockCounterMap'[p][k] = lockCounterMap[p][k]
            \/ \E c \in Callers :
                 /\ ProcOf(c) = p /\ pc[c] \in {"idle", "released"}
                 /\ lockRes'[c].key = k
                 /\ lockRes'[c].lockCount = lockCounterMap[p][k]
                 /\ lockCounterMap'[p][k] = lockCounterMap[p][k] + 1
         ]_vars

\* Two callers of one process attempted the same key at the same instant:
\* one holds the lock, the other lost, and their counts differ.
C21_Witness ==
    \E c, d \in Callers :
        /\ c # d /\ ProcOf(c) = ProcOf(d)
        /\ lockRes[c].key # "" /\ lockRes[c].key = lockRes[d].key
        /\ lockRes[c].putAt = lockRes[d].putAt
        /\ lockRes[c].newLock /\ ~lockRes[d].newLock /\ lockRes[d].called
        /\ lockRes[c].lockCount # lockRes[d].lockCount

\* C22: the CtxMutex never has more than one holder; the channel takes a
\* token only when it is empty, from a Lock returning nil or a TryLock
\* returning true; a TryLock on a locked mutex returns false at once and
\* changes nothing; and a locked mutex is taken again only after an Unlock or
\* a TryUnlock emptied the channel.
C22_MutexExclusion ==
    /\ [](Len(ch) <= 1)
    /\ [][/\ Len(ch') > Len(ch) =>
                /\ ch = <<>>
                /\ \E g \in MutexUsers :
                     /\ ch' = <<g>>
                     /\ mres'[g].op \in {"Lock", "TryLock"}
                     /\ mres'[g].ret \in {"nil", "true"}
                     /\ mpc'[g] = "idle"
          /\ Len(ch') < Len(ch) =>
                /\ ch' = <<>>
                /\ \E g \in MutexUsers :
                     /\ mres'[g].op \in {"Unlock", "TryUnlock"}
                     /\ mres'[g].ret \in {"nil", "true"}
          /\ \A g \in MutexUsers :
                /\ (mres'[g] # mres[g] /\ mres'[g].op = "TryLock") =>
                      /\ mres'[g].ret = "false" <=> ch # <<>>
                      /\ mres'[g].ret = "false" => ch' = ch
                      /\ mpc'[g] = "idle"
                /\ (mpc[g] = "select" /\ ch # <<>> /\ mpc'[g] = "idle") =>
                      mres'[g].ret = "ctx" /\ ch' = ch
         ]_vars

\* g1 holds the mutex, g2 is blocked in Lock and g3's TryLock returned false.
C22_Witness ==
    \E g1, g2, g3 \in MutexUsers :
        /\ ch = <<g1>> /\ mres[g1] = [op |-> "Lock", ret |-> "nil"]
        /\ mpc[g2] = "select" /\ ~mctxDone[g2]
        /\ mres[g3] = [op |-> "TryLock", ret |-> "false"]

\* C23: a Lock call whose ctx is done returns the context's error and does
\* not take the mutex, free or not; a Lock that returns an error leaves the
\* mutex as it was.
C23_LockHonoursContext ==
    [][\A g \in MutexUsers :
         /\ (mpc[g] = "select" /\ mctxDone[g] /\ mpc'[g] = "idle") =>
                mres'[g].ret = "ctx" /\ ch' = ch
         /\ (mpc[g] = "select" /\ mpc'[g] = "idle" /\ mres'[g].ret = "ctx") =>
                ch' = ch
      ]_vars

\* C24: RingSlice.Next is safe under concurrency: however Next and Set
\* interleave, the index Next reads is inside the current slice, so no call
\* panics and every call returns an element of the slice.
C24_NextInRange ==
    \A g \in RingUsers :
        rres[g].ret # "none" =>
            /\ rres[g].ret # "panic"
            /\ rres[g].idx \in 0 .. rres[g].len - 1

\* C25: PriorityQueue.Empty returns true exactly when Len() is 0.
C25_EmptyIffLenZero ==
    pqRes.op = "Empty" => (pqRes.ret = "true" <=> Len(pq) = 0)

\* C26: UnionUnique returns the set union of its arguments: every value that
\* occurs in at least one of the slices, each exactly once, and nothing else.
C26_UnionIsUnion ==
    unionRes.called =>
        LET all == UNION {Elems(unionRes.slices[i]) : i \in DOMAIN unionRes.slices}
        IN /\ Elems(unionRes.out) = all
           /\ Len(unionRes.out) = Cardinality(all)

C28_HeartbeatAbsorbing ==
    [][\A c \in Callers :
         lockRes'[c] = lockRes[c] =>
           /\ hb[c] = "exited" =>
                 /\ hb'[c] \in {"exited", "crashed"}
                 /\ firedAt'[c] = firedAt[c]
                 /\ hbExpiry'[c] = hbExpiry[c]
                 /\ timerAt'[c] = timerAt[c]
                 /\ hbErr'[c] = hbErr[c]
           /\ hb[c] = "getExisting" => hb'[c] \in {"getExisting", "exited", "crashed"}
           /\ (hb[c] = "update" /\ hb'[c] = "timer") =>
                 /\ UpdateCondition(rows[handle[c].key], handle[c].version)
                 /\ rows'[handle[c].key].expires = hbExpiry[c]
      ]_vars

\* A heartbeat that left its loop on a store error after at least one timer,
\* long enough ago for another renewal to have come due, while the row still
\* carries the handle's version.
C28_Witness ==
    \E c \in Callers :
        /\ hb[c] = "exited"
        /\ hbErr[c] = "store"
        /\ firedAt[c] >= 0
        /\ now >= firedAt[c] + HeartbeatInterval
        /\ HoldsRow(c)
        /\ pc[c] = "holding"

\* C29: renewal and release change only the expiry: a row's version changes
\* only in a Lock step that wins the key, and becomes that Lock's token; every
\* Lock that wins writes its token; every other change of a row leaves all
\* but expires as it was; and a heartbeat reports the lock lost only when
\* a later Lock has overwritten the row the handle acquired.
C29_OnlyExpiryChanges ==
    /\ [](\A c \in Callers :
            (hb[c] = "exited" /\ hbErr[c] = "lost") =>
                /\ Superseded(c)
                /\ rows[handle[c].key].acquired > handle[c].acquired)
    /\ [][\A k \in Keys :
            /\ rows'[k].version # rows[k].version =>
                  \E d \in Callers :
                      /\ LockStep(d, k)
                      /\ lockRes'[d].newLock
                      /\ rows'[k].version = Version(LockerId(d), lockRes'[d].lockCount)
            /\ \A d \in Callers :
                  (LockStep(d, k) /\ lockRes'[d].newLock) =>
                      /\ rows'[k].version = Version(LockerId(d), lockRes'[d].lockCount)
                      /\ handle'[d].version = rows'[k].version
            /\ (rows'[k] # rows[k] /\ ~\E d \in Callers : LockStep(d, k)) =>
                  rows'[k] = [rows[k] EXCEPT !.expires = rows'[k].expires]
       ]_vars

\* A handle whose heartbeat has reported its lock lost, the row carrying the
\* token of another caller whose heartbeat has renewed the lease since.
C29_Witness ==
    \E c, d \in Callers :
        /\ c # d
        /\ hb[c] = "exited"
        /\ hbErr[c] = "lost"
        /\ Superseded(c)
        /\ HoldsRow(d)
        /\ firedAt[d] >= 0
        /\ rows[handle[d].key].expires # InitialExpiry(handle[d].acquired)

\* C30: competing LockAll calls do not deadlock: at most one call is past
\* allLock at a time, so no two calls each hold keys while waiting for keys
\* the other holds, every unlocked key is held by its caller, and every
\* LockAll that was called returns.
C30_LockAllNoDeadlock ==
    /\ [](\A g, h \in MultiUsers :
            (g # h /\ mlpc[g] = "locking") =>
                /\ mlpc[h] # "locking"
                /\ ~\E k \in mlTodo[g] : keyLocks[k] = h /\ mlpc[h] = "allLock")
    /\ \A g \in MultiUsers : (mlpc[g] = "allLock") ~> (mlpc[g] = "holding")

\* One call past allLock holding a key and waiting for a key that a goroutine
\* back from LockAll holds, a third call waiting for allLock.
C30_Witness ==
    \E g1, g2, g3 \in MultiUsers :
        /\ mlpc[g1] = "locking"
        /\ \E k \in LockKeySet : keyLocks[k] = g1
        /\ \E k \in mlTodo[g1] : keyLocks[k] = g2
        /\ mlpc[g2] = "holding"
        /\ mlpc[g3] = "allLock"

====
